---- MODULE Spec2Model ----
(***************************************************************************)
(* Verification model of joorgemartinez/OrdersMail:                        *)
(*   src/mail.py              daily report (subtotals, invoice status,     *)
(*                            processed-invoices ledger)                   *)
(*   src/VENDIDO/so_mapper.py sales-order mapper (field resolution, power  *)
(*                            and pack-size inference, material rows)      *)
(*                                                                         *)
(* JSON values are tagged records [t, v]: t is the Python kind and v the   *)
(* payload.  A dict is a TLA+ function whose DOMAIN is the set of keys it  *)
(* holds, a list is a sequence, a string is a sequence of one-character    *)
(* strings and a number is an exact rational <<numerator, denominator>>.   *)
(***************************************************************************)
EXTENDS Integers, Sequences, FiniteSets, TLC

VARIABLES
    doc, subtotal_out,                 \* get_subtotal: argument, returned value
    inv, finalized_out,                \* is_invoice_finalized: argument, result
    container, candidates, field_default, field_out,  \* try_fields: arguments, result
    product, item_name, item_sku, power_out,   \* extract_power_w
    qty, pack_out,                     \* infer_units_per_pallet (with product, item_name, item_sku)
    order, rows_out,                   \* so_mapper.main loop body for one document
    state_file, settled, pc, processed_invoices, invoices_all,
    new_invoices, reported             \* mail.main runs over the persisted ledger

varsSubtotal == <<doc, subtotal_out>>
varsStatus   == <<inv, finalized_out>>
varsFields   == <<container, candidates, field_default, field_out>>
varsPower    == <<product, item_name, item_sku, power_out>>
varsPack     == <<qty, pack_out>>
varsRows     == <<order, rows_out>>
varsLedger   == <<state_file, settled, pc, processed_invoices, invoices_all,
                  new_invoices, reported>>
vars == <<varsSubtotal, varsStatus, varsFields, varsPower, varsPack, varsRows, varsLedger>>

(***************************************************************************)
(* Exact rationals (Python floats, without rounding).                      *)
(***************************************************************************)
Abs(n) == IF n < 0 THEN -n ELSE n

RECURSIVE GCD(_, _)
GCD(a, b) == IF b = 0 THEN a ELSE GCD(b, a % b)

Rat(n, d) ==
    LET g == GCD(Abs(n), Abs(d))
        s == IF d < 0 THEN -1 ELSE 1
    IN  <<(s * n) \div g, (s * d) \div g>>

RZero == <<0, 1>>
ROne  == <<1, 1>>
RInt(n) == <<n, 1>>
RAdd(a, b) == Rat(a[1] * b[2] + b[1] * a[2], a[2] * b[2])
RSub(a, b) == Rat(a[1] * b[2] - b[1] * a[2], a[2] * b[2])
RMul(a, b) == Rat(a[1] * b[1], a[2] * b[2])
RLt(a, b)  == a[1] * b[2] < b[1] * a[2]
RLe(a, b)  == a[1] * b[2] <= b[1] * a[2]
RMax(a, b) == IF RLt(a, b) THEN b ELSE a
RDiv(a, b) == Rat(a[1] * b[2], a[2] * b[1])
\* math.ceil(x)
RCeil(a) == -((-a[1]) \div a[2])
\* int(x): truncation towards zero
RTrunc(a) == IF a[1] >= 0 THEN a[1] \div a[2] ELSE -((-a[1]) \div a[2])

(***************************************************************************)
(* JSON / Python values.                                                   *)
(***************************************************************************)
NoneV     == [t |-> "none", v |-> RZero]
Num(n)    == [t |-> "num",  v |-> RInt(n)]
Frac(n, d) == [t |-> "num", v |-> Rat(n, d)]
Bool(b)   == [t |-> "bool", v |-> b]
Str(s)    == [t |-> "str",  v |-> s]
List(s)   == [t |-> "list", v |-> s]
Dict(f)   == [t |-> "dict", v |-> f]
EmptyDict == Dict(<<>>)
EmptyList == List(<<>>)
EmptyStr  == Str(<<>>)

\* bool(x)
Truthy(x) ==
    CASE x.t = "none" -> FALSE
      [] x.t = "num"  -> x.v[1] # 0
      [] x.t = "bool" -> x.v
      [] x.t = "str"  -> Len(x.v) > 0
      [] x.t = "list" -> Len(x.v) > 0
      [] x.t = "dict" -> DOMAIN x.v # {}

\* a or b
Or(a, b) == IF Truthy(a) THEN a ELSE b

\* k in d, d.get(k) on a dict payload
Has(d, k) == k \in DOMAIN d
Get(d, k) == IF k \in DOMAIN d THEN d[k] ELSE NoneV

\* dicts are written as sequences of <<key, value>> pairs
(***************************************************************************)
(* Strings: sequences of one-character strings.                            *)
(***************************************************************************)
Digits == {"0", "1", "2", "3", "4", "5", "6", "7", "8", "9"}
DigitVal(c) ==
    CASE c = "0" -> 0 [] c = "1" -> 1 [] c = "2" -> 2 [] c = "3" -> 3 [] c = "4" -> 4
      [] c = "5" -> 5 [] c = "6" -> 6 [] c = "7" -> 7 [] c = "8" -> 8 [] c = "9" -> 9
IsDigit(c) == c \in Digits
IsSpace(c) == c = " "

RECURSIVE IntOf(_)
IntOf(s) == IF s = <<>> THEN 0 ELSE 10 * IntOf(SubSeq(s, 1, Len(s) - 1)) + DigitVal(s[Len(s)])

RECURSIVE Pow10(_)
Pow10(n) == IF n = 0 THEN 1 ELSE 10 * Pow10(n - 1)

AllDigits(s) == \A i \in DOMAIN s : IsDigit(s[i])

\* str.strip()
RECURSIVE LStrip(_)
LStrip(s) == IF s # <<>> /\ IsSpace(s[1]) THEN LStrip(Tail(s)) ELSE s
RECURSIVE RStrip(_)
RStrip(s) == IF s # <<>> /\ IsSpace(s[Len(s)]) THEN RStrip(SubSeq(s, 1, Len(s) - 1)) ELSE s
Strip(s) == RStrip(LStrip(s))

\* str.replace(",", ".")
CommaToDot(s) == [i \in DOMAIN s |-> IF s[i] = "," THEN "." ELSE s[i]]

\* str.lower() on the Latin letters
UpperLetters == <<"A", "B", "C", "D", "E", "F", "G", "H", "I", "J", "K", "L", "M",
                  "N", "O", "P", "Q", "R", "S", "T", "U", "V", "W", "X", "Y", "Z">>
LowerLetters == <<"a", "b", "c", "d", "e", "f", "g", "h", "i", "j", "k", "l", "m",
                  "n", "o", "p", "q", "r", "s", "t", "u", "v", "w", "x", "y", "z">>
LowerChar(c) ==
    IF \E i \in DOMAIN UpperLetters : UpperLetters[i] = c
    THEN LowerLetters[CHOOSE i \in DOMAIN UpperLetters : UpperLetters[i] = c]
    ELSE c
Lower(s) == [i \in DOMAIN s |-> LowerChar(s[i])]

\* tok in s (substring test)
Contains(tok, s) ==
    \E i \in 0..(Len(s) - Len(tok)) : SubSeq(s, i + 1, i + Len(tok)) = tok

\* str(n) for an integer n >= 0, and for a number: sign, integer part and, when
\* there is a fraction, "." and its decimals (at most six are kept).  Python writes
\* a float with a trailing ".0" that an int does not have; no text test of the
\* program tells the two apart.
DigitChars == <<"0", "1", "2", "3", "4", "5", "6", "7", "8", "9">>
RECURSIVE NatStr(_)
NatStr(n) == IF n < 10 THEN <<DigitChars[n + 1]>>
             ELSE Append(NatStr(n \div 10), DigitChars[(n % 10) + 1])
RECURSIVE FracStr(_, _, _)
FracStr(r, d, k) == IF r = 0 \/ k = 0 THEN <<>>
                    ELSE <<DigitChars[((10 * r) \div d) + 1]>> \o FracStr((10 * r) % d, d, k - 1)
NumStr(q) ==
    (IF q[1] < 0 THEN <<"-">> ELSE <<>>)
    \o NatStr(Abs(q[1]) \div q[2])
    \o (IF Abs(q[1]) % q[2] = 0 THEN <<>> ELSE <<".">> \o FracStr(Abs(q[1]) % q[2], q[2], 6))

\* str(x) of the scalar kinds
PyStr(x) ==
    CASE x.t = "str"  -> x.v
      [] x.t = "num"  -> NumStr(x.v)
      [] x.t = "bool" -> IF x.v THEN <<"T", "r", "u", "e">> ELSE <<"F", "a", "l", "s", "e">>
      [] x.t = "none" -> <<"N", "o", "n", "e">>

\* float(s) for the decimal literals sign? digits* ( "." digits* )? with at least one
\* digit; every other text raises ValueError.  Result <<ok, rational>>.
FirstDot(body) ==
    LET dots == {i \in DOMAIN body : body[i] = "."}
    IN  IF dots = {} THEN Len(body) + 1 ELSE CHOOSE i \in dots : \A j \in dots : i <= j

DecimalValue(ip, fp) == Rat(IntOf(ip) * Pow10(Len(fp)) + IntOf(fp), Pow10(Len(fp)))

ParseParts(neg, ip, fp) ==
    IF AllDigits(ip) /\ AllDigits(fp) /\ Len(ip) + Len(fp) > 0
    THEN <<TRUE, IF neg THEN RSub(RZero, DecimalValue(ip, fp)) ELSE DecimalValue(ip, fp)>>
    ELSE <<FALSE, RZero>>

ParseUnsigned(neg, body, dot) ==
    ParseParts(neg, SubSeq(body, 1, dot - 1), SubSeq(body, dot + 1, Len(body)))

ParseStripped(s) ==
    IF s = <<>> THEN <<FALSE, RZero>>
    ELSE IF s[1] \in {"-", "+"} THEN ParseUnsigned(s[1] = "-", Tail(s), FirstDot(Tail(s)))
    ELSE ParseUnsigned(FALSE, s, FirstDot(s))

ParseFloat(s0) == ParseStripped(Strip(s0))

(***************************************************************************)
(* src/mail.py : _as_float                                                 *)
(***************************************************************************)
\* str(x) of a list or dict starts with a bracket: float() raises on it.
_as_float(x) ==
    CASE x.t = "none" -> RZero
      [] x.t = "num"  -> x.v
      [] x.t = "bool" -> IF x.v THEN ROne ELSE RZero
      [] x.t = "str"  -> ParseFloat(CommaToDot(Strip(x.v)))[2]
      [] OTHER        -> RZero

(***************************************************************************)
(* src/mail.py : get_subtotal                                              *)
(***************************************************************************)
candidate_keys ==
    <<"subtotal", "subTotal", "taxBase", "base", "baseAmount",
      "untaxed", "untaxedAmount", "totalNoTax", "total_without_tax",
      "totalWithoutTax", "net", "netAmount", "amountNet">>

line_base_keys == <<"subtotal", "subTotal", "base", "amountNet", "totalNoTax", "net">>

\* for k in keys: if k in d: ...   -- index of the first key of `keys` held by d, 0 if none
FirstKeyIn(keys, d) ==
    LET hits == {i \in DOMAIN keys : Has(d, keys[i])}
    IN  IF hits = {} THEN 0 ELSE CHOOSE i \in hits : \A j \in hits : i <= j

\* totals = doc.get("totals") or {}
TotalsOf(d) == Or(Get(d, "totals"), EmptyDict)

\* lines = doc.get("lines") or doc.get("products") or []
LinesOf(d) == Or(Get(d, "lines"), Or(Get(d, "products"), EmptyList))

\* 1) a candidate key at the root
HasRootSubtotal(d) == FirstKeyIn(candidate_keys, d) # 0
RootSubtotal(d) == _as_float(Get(d, candidate_keys[FirstKeyIn(candidate_keys, d)]))

\* 1b) a candidate key inside totals
HasTotalsSubtotal(d) ==
    /\ TotalsOf(d).t = "dict"
    /\ FirstKeyIn(candidate_keys, TotalsOf(d).v) # 0
TotalsSubtotal(d) ==
    LET tv == TotalsOf(d).v
    IN  _as_float(Get(tv, candidate_keys[FirstKeyIn(candidate_keys, tv)]))

\* 2) one line of the reconstruction (the body of the for loop)
LinePrice(l) == _as_float(Or(Get(l, "price"), Or(Get(l, "unitPrice"),
                            Or(Get(l, "unit_price"), Get(l, "amount")))))
LineQty(l)   == _as_float(Or(Get(l, "quantity"), Or(Get(l, "qty"),
                            Or(Get(l, "units"), Num(1)))))
LineDiscPct(l) == _as_float(Or(Get(l, "discount"), Or(Get(l, "discountRate"),
                              Get(l, "discountPercent"))))
LineDiscAbs(l) == _as_float(Or(Get(l, "discountAmount"), Get(l, "discount_amount")))

\* if disc_pct: line *= (1 - (disc_pct if disc_pct <= 1 else disc_pct/100.0))
ApplyDiscPct(line, disc_pct) ==
    IF disc_pct[1] = 0 THEN line
    ELSE IF RLe(disc_pct, ROne) THEN RMul(line, RSub(ROne, disc_pct))
    ELSE RMul(line, RSub(ROne, RMul(disc_pct, <<1, 100>>)))

\* if line < 0: line = 0.0
ClampLine(line) == IF RLt(line, RZero) THEN RZero ELSE line

LineComputed(l) ==
    ClampLine(RSub(ApplyDiscPct(RMul(LinePrice(l), LineQty(l)), LineDiscPct(l)),
                   LineDiscAbs(l)))

\* a line that is not a dict is skipped; an explicit per-line base is used as it is
LineBase(ln) ==
    IF ln.t # "dict" THEN RZero
    ELSE IF FirstKeyIn(line_base_keys, ln.v) # 0
    THEN _as_float(Get(ln.v, line_base_keys[FirstKeyIn(line_base_keys, ln.v)]))
    ELSE LineComputed(ln.v)

RECURSIVE SumLines(_)
SumLines(ls) == IF ls = <<>> THEN RZero
                ELSE RAdd(SumLines(SubSeq(ls, 1, Len(ls) - 1)), LineBase(ls[Len(ls)]))

HasLines(d) == LinesOf(d).t = "list" /\ Len(LinesOf(d).v) > 0
LinesSubtotal(d) == SumLines(LinesOf(d).v)

\* 3) total - tax
TotalsGet(totals, k) == IF totals.t = "dict" THEN Get(totals.v, k) ELSE Num(0)
DocTotal(d) == _as_float(Or(Get(d, "total"), TotalsGet(TotalsOf(d), "total")))
DocTax(d) ==
    _as_float(Or(Get(d, "tax"), Or(Get(d, "taxAmount"), Or(Get(d, "vatAmount"),
              Or(TotalsGet(TotalsOf(d), "tax"), Or(TotalsGet(TotalsOf(d), "taxAmount"),
                 TotalsGet(TotalsOf(d), "vatAmount")))))))
TotalMinusTax(d) ==
    IF DocTotal(d)[1] # 0 THEN RMax(RSub(DocTotal(d), DocTax(d)), RZero) ELSE RZero

\* a plausible slip: the line reconstruction is consulted before the document's own fields
get_subtotal_lines_first(x) ==
    IF x.t # "dict" THEN RZero
    ELSE LET d == x.v
         IN  CASE HasLines(d)          -> LinesSubtotal(d)
               [] HasRootSubtotal(d)   -> RootSubtotal(d)
               [] HasTotalsSubtotal(d) -> TotalsSubtotal(d)
               [] OTHER                -> TotalMinusTax(d)

get_subtotal(x) ==
    IF x.t # "dict" THEN RZero
    ELSE LET d == x.v
         IN  CASE HasRootSubtotal(d)   -> RootSubtotal(d)
               [] HasTotalsSubtotal(d) -> TotalsSubtotal(d)
               [] HasLines(d)          -> LinesSubtotal(d)
               [] OTHER                -> TotalMinusTax(d)


(***************************************************************************)
(* src/VENDIDO/so_mapper.py : try_fields                                   *)
(***************************************************************************)
\* the characters of the key names the mapper looks up
KeyChars(k) ==
    CASE k = "power_w" -> <<"p", "o", "w", "e", "r", "_", "w">>
      [] k = "Potencia" -> <<"P", "o", "t", "e", "n", "c", "i", "a">>
      [] k = "potencia_w" -> <<"p", "o", "t", "e", "n", "c", "i", "a", "_", "w">>
      [] k = "power" -> <<"p", "o", "w", "e", "r">>
      [] k = "watt" -> <<"w", "a", "t", "t">>
      [] k = "W" -> <<"W">>
      [] k = "units_per_pallet" -> <<"u", "n", "i", "t", "s", "_", "p", "e", "r", "_", "p", "a", "l", "l", "e", "t">>
      [] k = "unitsPerPallet" -> <<"u", "n", "i", "t", "s", "P", "e", "r", "P", "a", "l", "l", "e", "t">>
      [] k = "pallet_units" -> <<"p", "a", "l", "l", "e", "t", "_", "u", "n", "i", "t", "s">>
      [] k = "ud_pallet" -> <<"u", "d", "_", "p", "a", "l", "l", "e", "t">>
      [] k = "uds_pallet" -> <<"u", "d", "s", "_", "p", "a", "l", "l", "e", "t">>
      [] k = "unitsPallet" -> <<"u", "n", "i", "t", "s", "P", "a", "l", "l", "e", "t">>
      [] k = "name" -> <<"n", "a", "m", "e">>
      [] k = "sku" -> <<"s", "k", "u">>

\* outcomes besides a value: nothing found here, or an exception left the function
Miss   == [t |-> "miss",  v |-> RZero]
RaiseV == [t |-> "raise", v |-> RZero]

\* val not in (None, "", [])
NonEmpty(val) ==
    ~(\/ val.t = "none"
      \/ (val.t = "str"  /\ val.v = <<>>)
      \/ (val.t = "list" /\ val.v = <<>>))

\* if key in m: val = m[key]; if val not in (None, "", []): return val
MapLookup(m, key) == IF Has(m, key) /\ NonEmpty(m[key]) THEN m[key] ELSE Miss

\* attrs = container.get("attributes") or {};  if key in attrs: val = attrs.get(key)
\* `key in attrs` is a substring test on a string and an element test on a list,
\* and attrs.get then raises AttributeError; on a number `in` raises TypeError.
AttrsLookup(attrs, key) ==
    CASE attrs.t = "dict" -> MapLookup(attrs.v, key)
      [] attrs.t = "str"  -> IF Contains(KeyChars(key), attrs.v) THEN RaiseV ELSE Miss
      [] attrs.t = "list" -> IF \E i \in DOMAIN attrs.v :
                                    attrs.v[i].t = "str" /\ attrs.v[i].v = KeyChars(key)
                             THEN RaiseV ELSE Miss
      [] OTHER            -> RaiseV

\* isinstance(entry, dict) and entry.get("field") == key, with a non-empty value
EntryHit(entry, key) ==
    /\ entry.t = "dict"
    /\ Get(entry.v, "field").t = "str"
    /\ Get(entry.v, "field").v = KeyChars(key)
    /\ NonEmpty(Get(entry.v, "value"))

\* for entry in cfs: ... return val
ListLookup(cfs, key) ==
    IF \E i \in DOMAIN cfs : EntryHit(cfs[i], key)
    THEN Get(cfs[CHOOSE i \in DOMAIN cfs :
                    EntryHit(cfs[i], key) /\ \A j \in 1..(i - 1) : ~EntryHit(cfs[j], key)].v,
             "value")
    ELSE Miss

CustomFieldsLookup(cfs, key) ==
    CASE cfs.t = "dict" -> MapLookup(cfs.v, key)
      [] cfs.t = "list" -> ListLookup(cfs.v, key)
      [] OTHER          -> Miss

OrElse(a, b) == IF a.t # "miss" THEN a ELSE b

\* the body of `for key in candidates`, reading only the top-level key (a slip
\* that forgets the nested representations)
KeyLookupFlatOnly(c, key) == MapLookup(c, key)

\* the body of `for key in candidates`
KeyLookup(c, key) ==
    OrElse(MapLookup(c, key),
    OrElse(AttrsLookup(Or(Get(c, "attributes"), EmptyDict), key),
           CustomFieldsLookup(Get(c, "customFields"), key)))

FirstFound(c, cands) ==
    CHOOSE i \in DOMAIN cands :
        /\ KeyLookup(c, cands[i]).t # "miss"
        /\ \A j \in 1..(i - 1) : KeyLookup(c, cands[j]).t = "miss"

try_fields(cont, cands, default) ==
    IF cont.t # "dict" THEN default
    ELSE IF \E i \in DOMAIN cands : KeyLookup(cont.v, cands[i]).t # "miss"
    THEN KeyLookup(cont.v, cands[FirstFound(cont.v, cands)])
    ELSE default

(***************************************************************************)
(* src/VENDIDO/so_mapper.py : extract_power_w                              *)
(***************************************************************************)
power_keys == <<"power_w", "Potencia", "potencia_w", "power", "watt", "W">>

SetMax(S) == CHOOSE x \in S : \A y \in S : y <= x

\* positions where a run of digits starts: a digit with (?<!\d) before it
RunStarts(s) == {i \in DOMAIN s : IsDigit(s[i]) /\ (i = 1 \/ ~IsDigit(s[i - 1]))}

\* length of the run of digits that starts at i
RECURSIVE RunLen(_, _)
RunLen(s, i) == IF i <= Len(s) /\ IsDigit(s[i]) THEN 1 + RunLen(s, i + 1) ELSE 0

\* \s* from position j: the first position that is not white space
RECURSIVE SkipSpaces(_, _)
SkipSpaces(s, j) == IF j <= Len(s) /\ IsSpace(s[j]) THEN SkipSpaces(s, j + 1) ELSE j

IsW(s, j) == j <= Len(s) /\ s[j] \in {"W", "w"}

\* re.findall(r"(?<!\d)(\d{3,4})\s*[Ww]\s*(?:[Pp])?", txt): \d{3,4} must be followed
\* by \s*[Ww], so the group is a whole run of 3 or 4 digits; what the match consumes
\* after the digits holds no digit, so no later match is lost to it.
WattMatches(s) ==
    {IntOf(SubSeq(s, i, i + RunLen(s, i) - 1)) :
        i \in {j \in RunStarts(s) : /\ RunLen(s, j) \in {3, 4}
                                     /\ IsW(s, SkipSpaces(s, j + RunLen(s, j)))}}

\* re.findall(r"(?<!\d)(\d{3,4})(?!\d)", txt): the runs of exactly 3 or 4 digits
BareMatches(s) ==
    {IntOf(SubSeq(s, i, i + RunLen(s, i) - 1)) :
        i \in {j \in RunStarts(s) : RunLen(s, j) \in {3, 4}}}

\* 300 <= n <= 1000
Plausible(S) == {n \in S : 300 <= n /\ n <= 1000}

\* str(x or "")
TextOf(x) == IF Truthy(x) THEN PyStr(x) ELSE <<>>

\* float(val) inside try/except: <<ok, value>>
FloatOf(val) ==
    CASE val.t = "num"  -> <<TRUE, val.v>>
      [] val.t = "bool" -> <<TRUE, IF val.v THEN ROne ELSE RZero>>
      [] val.t = "str"  -> ParseFloat(val.v)
      [] OTHER          -> <<FALSE, RZero>>

PowerTexts(prod, name, sku) ==
    << name, sku,
       TextOf(try_fields(prod, <<"name">>, NoneV)),
       TextOf(try_fields(prod, <<"sku">>, NoneV)) >>

\* 2) for txt in texts: ... if cands: return float(max(cands))
FirstWattSource(texts) ==
    CHOOSE i \in DOMAIN texts :
        /\ Plausible(WattMatches(texts[i])) # {}
        /\ \A j \in 1..(i - 1) : Plausible(WattMatches(texts[j])) = {}

WattScan(texts) ==
    IF \E i \in DOMAIN texts : Plausible(WattMatches(texts[i])) # {}
    THEN SetMax(Plausible(WattMatches(texts[FirstWattSource(texts)])))
    ELSE 0

\* 3) generic: the plausible bare numbers of all the texts
BareScan(texts) ==
    IF UNION {Plausible(BareMatches(texts[i])) : i \in DOMAIN texts} # {}
    THEN SetMax(UNION {Plausible(BareMatches(texts[i])) : i \in DOMAIN texts})
    ELSE 0

\* a slip: the W-suffixed scan is left out
TextPowerBareOnly(texts) == BareScan(texts)

TextPower(texts) == IF WattScan(texts) # 0 THEN WattScan(texts) ELSE BareScan(texts)

extract_power_w(prod, name, sku) ==
    IF try_fields(prod, power_keys, NoneV).t = "raise" THEN RaiseV
    ELSE IF /\ NonEmpty(try_fields(prod, power_keys, NoneV))
            /\ FloatOf(try_fields(prod, power_keys, NoneV))[1]
    THEN [t |-> "num", v |-> FloatOf(try_fields(prod, power_keys, NoneV))[2]]
    ELSE IF \/ try_fields(prod, <<"name">>, NoneV).t = "raise"
            \/ try_fields(prod, <<"sku">>, NoneV).t = "raise"
    THEN RaiseV
    ELSE Num(TextPower(PowerTexts(prod, name, sku)))

(***************************************************************************)
(* src/VENDIDO/so_mapper.py : pack-size inference                          *)
(***************************************************************************)
POSSIBLE_PACK_SIZES == <<36, 37, 35, 31, 30>>

pack_keys == <<"units_per_pallet", "unitsPerPallet", "pallet_units",
               "ud_pallet", "uds_pallet", "unitsPallet">>

\* extract_units_per_pallet: float(val), 0.0 on any exception; the lookup itself
\* is outside the try
extract_units_per_pallet(prod) ==
    IF try_fields(prod, pack_keys, NoneV).t = "raise" THEN RaiseV
    ELSE IF FloatOf(try_fields(prod, pack_keys, NoneV))[1]
    THEN [t |-> "num", v |-> FloatOf(try_fields(prod, pack_keys, NoneV))[2]]
    ELSE Num(0)

\* \w of the regular expressions
IsWordChar(c) ==
    \/ IsDigit(c) \/ c = "_"
    \/ \E i \in DOMAIN LowerLetters : c = LowerLetters[i] \/ c = UpperLetters[i]

\* positions where word occurs in text, case ignored
Occurrences(word, text) ==
    {i \in 1..(Len(text) - Len(word) + 1) :
        \A k \in DOMAIN word : LowerChar(text[i + k - 1]) = word[k]}

\* \bword\b at position i
WholeWordAt(word, text, i) ==
    /\ i \in Occurrences(word, text)
    /\ (i = 1 \/ ~IsWordChar(text[i - 1]))
    /\ (i + Len(word) > Len(text) \/ ~IsWordChar(text[i + Len(word)]))

\* re.search(r"AIKO.*MAH72M", text, flags=re.IGNORECASE)
MatchesAikoMah72m(text) ==
    \E i \in Occurrences(<<"a", "i", "k", "o">>, text) :
        \E j \in Occurrences(<<"m", "a", "h", "7", "2", "m">>, text) : j >= i + 4

\* re.search(r"AIKO.*\b605\b", text, flags=re.IGNORECASE)
MatchesAiko605(text) ==
    \E i \in Occurrences(<<"a", "i", "k", "o">>, text) :
        \E j \in (i + 4)..Len(text) : WholeWordAt(<<"6", "0", "5">>, text, j)

\* " ".join([name, sku, str(product.get("name") or ""), str(product.get("sku") or "")])
PatternText(name, sku, prod) ==
    name \o <<" ">> \o sku \o <<" ">>
         \o TextOf(IF prod.t = "dict" THEN Get(prod.v, "name") ELSE NoneV) \o <<" ">>
         \o TextOf(IF prod.t = "dict" THEN Get(prod.v, "sku") ELSE NoneV)

\* PACK_RULES, first matching rule wins; 0 when none matches
hint_units_per_pallet_by_pattern(name, sku, prod) ==
    IF MatchesAikoMah72m(PatternText(name, sku, prod)) THEN 36
    ELSE IF MatchesAiko605(PatternText(name, sku, prod)) THEN 36
    ELSE 0

\* qty % upp for a float upp > 0 (the result has the sign of the divisor)
FloatMod(q, upp) == Rat((q * upp[2]) % upp[1], upp[2])

PackResult(upp, source, others, leftover) ==
    [t |-> "pack", upp |-> upp, source |-> source, others |-> others, leftover |-> leftover]

\* exact = [p for p in POSSIBLE_PACK_SIZES if qty % p == 0], as indices
ExactIdx(q) == {i \in DOMAIN POSSIBLE_PACK_SIZES : q % POSSIBLE_PACK_SIZES[i] = 0}
Exact(q) == {POSSIBLE_PACK_SIZES[i] : i \in ExactIdx(q)}

\* a slip: the largest exact divisor is taken, 36 not preferred
PreferredLargest(q) == SetMax(Exact(q))

\* preferred = 36 if 36 in exact else max(exact)
Preferred(q) == IF 36 \in Exact(q) THEN 36 ELSE SetMax(Exact(q))

\* others = [p for p in exact if p != preferred], in list order
RECURSIVE Others(_, _, _)
Others(q, pref, i) ==
    IF i > Len(POSSIBLE_PACK_SIZES) THEN <<>>
    ELSE (IF q % POSSIBLE_PACK_SIZES[i] = 0 /\ POSSIBLE_PACK_SIZES[i] # pref
          THEN <<POSSIBLE_PACK_SIZES[i]>> ELSE <<>>) \o Others(q, pref, i + 1)

\* the loop over POSSIBLE_PACK_SIZES keeps the least score (rem, -p)
ScoreLess(q, p1, p2) == (q % p1 < q % p2) \/ (q % p1 = q % p2 /\ p1 > p2)
RECURSIVE BestPack(_, _, _)
BestPack(q, best, i) ==
    IF i > Len(POSSIBLE_PACK_SIZES) THEN best
    ELSE BestPack(q, IF ScoreLess(q, POSSIBLE_PACK_SIZES[i], best)
                     THEN POSSIBLE_PACK_SIZES[i] ELSE best, i + 1)
Closest(q) == BestPack(q, POSSIBLE_PACK_SIZES[1], 2)

\* 3) and 4): divisibility over the plausible list
DivisibilityTier(q) ==
    IF q = 0 THEN PackResult(RZero, "unknown", <<>>, 0)
    ELSE IF Cardinality(ExactIdx(q)) = 1
    THEN PackResult(RInt(SetMax(Exact(q))), "divisible", <<>>, 0)
    ELSE IF Cardinality(ExactIdx(q)) > 1
    THEN PackResult(RInt(Preferred(q)), "ambiguous_divisible", Others(q, Preferred(q), 1), 0)
    ELSE PackResult(RInt(Closest(q)), "closest", <<>>, q % Closest(q))

\* slips: the closest-divisor tier is missing; the exact-divisor tier is missing
DivisibilityTierNoClosest(q) ==
    IF q # 0 /\ ExactIdx(q) # {} THEN DivisibilityTier(q)
    ELSE PackResult(RZero, "unknown", <<>>, 0)
DivisibilityTierNoExact(q) ==
    IF q = 0 THEN PackResult(RZero, "unknown", <<>>, 0)
    ELSE PackResult(RInt(Closest(q)), "closest", <<>>, q % Closest(q))

\* leftover = qty % upp if qty and upp else 0 ... int(leftover)
Leftover(q, upp) == IF q # 0 THEN RTrunc(FloatMod(q, upp)) ELSE 0

infer_no_closest(prod, name, sku, q) ==
    IF extract_units_per_pallet(prod).t = "raise" THEN RaiseV
    ELSE IF RLt(RZero, extract_units_per_pallet(prod).v)
    THEN PackResult(extract_units_per_pallet(prod).v, "attr", <<>>,
                    Leftover(q, extract_units_per_pallet(prod).v))
    ELSE IF hint_units_per_pallet_by_pattern(name, sku, prod) > 0
    THEN PackResult(RInt(hint_units_per_pallet_by_pattern(name, sku, prod)), "pattern", <<>>,
                    Leftover(q, RInt(hint_units_per_pallet_by_pattern(name, sku, prod))))
    ELSE DivisibilityTierNoClosest(q)

infer_no_exact(prod, name, sku, q) ==
    IF extract_units_per_pallet(prod).t = "raise" THEN RaiseV
    ELSE IF RLt(RZero, extract_units_per_pallet(prod).v)
    THEN PackResult(extract_units_per_pallet(prod).v, "attr", <<>>,
                    Leftover(q, extract_units_per_pallet(prod).v))
    ELSE IF hint_units_per_pallet_by_pattern(name, sku, prod) > 0
    THEN PackResult(RInt(hint_units_per_pallet_by_pattern(name, sku, prod)), "pattern", <<>>,
                    Leftover(q, RInt(hint_units_per_pallet_by_pattern(name, sku, prod))))
    ELSE DivisibilityTierNoExact(q)

\* a slip: the pattern rules are consulted before the explicit attribute
infer_pattern_first(prod, name, sku, q) ==
    IF extract_units_per_pallet(prod).t = "raise" THEN RaiseV
    ELSE IF hint_units_per_pallet_by_pattern(name, sku, prod) > 0
    THEN PackResult(RInt(hint_units_per_pallet_by_pattern(name, sku, prod)), "pattern", <<>>,
                    Leftover(q, RInt(hint_units_per_pallet_by_pattern(name, sku, prod))))
    ELSE IF RLt(RZero, extract_units_per_pallet(prod).v)
    THEN PackResult(extract_units_per_pallet(prod).v, "attr", <<>>,
                    Leftover(q, extract_units_per_pallet(prod).v))
    ELSE DivisibilityTier(q)

infer_units_per_pallet(prod, name, sku, q) ==
    IF extract_units_per_pallet(prod).t = "raise" THEN RaiseV
    ELSE IF RLt(RZero, extract_units_per_pallet(prod).v)
    THEN PackResult(extract_units_per_pallet(prod).v, "attr", <<>>,
                    Leftover(q, extract_units_per_pallet(prod).v))
    ELSE IF hint_units_per_pallet_by_pattern(name, sku, prod) > 0
    THEN PackResult(RInt(hint_units_per_pallet_by_pattern(name, sku, prod)), "pattern", <<>>,
                    Leftover(q, RInt(hint_units_per_pallet_by_pattern(name, sku, prod))))
    ELSE DivisibilityTier(q)

(***************************************************************************)
(* src/VENDIDO/so_mapper.py : document lines, transport amount, rows       *)
(***************************************************************************)
Transporte == <<"t", "r", "a", "n", "s", "p", "o", "r", "t", "e">>

\* float(x or 0)
FloatOr0(x) == FloatOf(Or(x, Num(0)))[2]

\* [t.lower() for t in (it.get("tags") or [])] holds "transporte"
HasTransportTag(it) ==
    /\ Or(Get(it, "tags"), EmptyList).t = "list"
    /\ \E i \in DOMAIN Or(Get(it, "tags"), EmptyList).v :
          Lower(Or(Get(it, "tags"), EmptyList).v[i].v) = Transporte

\* (it.get("name") or "")
ItemName(it) == Or(Get(it, "name"), EmptyStr).v

\* iter_document_lines: name.lower() == "transporte" or the tag
IsTransportLine(it) == Lower(Strip(ItemName(it))) = Transporte \/ HasTransportTag(it)

\* extract_transport_amount_from_doc: "transporte" in name (a substring test) or the tag
CountsAsTransport(it) == Contains(Transporte, Lower(Strip(ItemName(it)))) \/ HasTransportTag(it)

\* one normalised line of iter_document_lines
NormLine(it) ==
    [ name         |-> Strip(ItemName(it)),
      qty          |-> FloatOr0(Get(it, "units")),
      unit_price   |-> FloatOr0(Get(it, "price")),
      amount       |-> RMul(FloatOr0(Get(it, "price")), FloatOr0(Get(it, "units"))),
      productId    |-> Get(it, "productId"),
      sku          |-> IF Get(it, "sku").t = "none" THEN <<>> ELSE PyStr(Get(it, "sku")),
      is_transport |-> IsTransportLine(it) ]

RECURSIVE iter_document_lines(_)
iter_document_lines(items) ==
    IF items = <<>> THEN <<>>
    ELSE <<NormLine(items[1].v)>> \o iter_document_lines(Tail(items))

RECURSIVE TransportTotal(_)
TransportTotal(items) ==
    IF items = <<>> THEN RZero
    ELSE RAdd(IF CountsAsTransport(items[1].v)
              THEN RMul(FloatOr0(Get(items[1].v, "price")), FloatOr0(Get(items[1].v, "units")))
              ELSE RZero,
              TransportTotal(Tail(items)))

Dash == Str(<<"-">>)

\* total if found else "-"
extract_transport_amount_from_doc(d) ==
    IF \E i \in DOMAIN Or(Get(d, "products"), EmptyList).v :
          CountsAsTransport(Or(Get(d, "products"), EmptyList).v[i].v)
    THEN [t |-> "num", v |-> TransportTotal(Or(Get(d, "products"), EmptyList).v)]
    ELSE Dash

\* get_product over the catalogue of the invoicing service; an unknown reference
\* is an HTTP error, which build_row turns into {}
ProductCatalogue(id) ==
    IF id = Str(<<"p", "1">>)
    THEN Dict([attributes |-> Dict([power_w |-> Num(610), units_per_pallet |-> Num(31)])])
    ELSE EmptyDict
ProductOf(line) == IF Truthy(line.productId) THEN ProductCatalogue(line.productId) ELSE EmptyDict

\* item_name = line["name"] or "-"
RowItemName(line) == IF line.name = <<>> THEN <<"-">> ELSE line.name

RowPower(line) == extract_power_w(ProductOf(line), RowItemName(line), line.sku)
RowPack(line)  == infer_units_per_pallet(ProductOf(line), RowItemName(line), line.sku,
                                         RTrunc(line.qty))

\* pallets = math.ceil(qty / upp) if (qty > 0 and upp > 0) else "-"
Pallets(q, upp) ==
    IF RLt(RZero, q) /\ RLt(RZero, upp) THEN Num(RCeil(RDiv(q, upp))) ELSE Dash

\* compute_price_per_w
compute_price_per_w(line_amount, q, power_w) ==
    IF q[1] # 0 /\ power_w[1] # 0 THEN RDiv(line_amount, RMul(q, power_w)) ELSE RZero

\* build_row without its date label (the time-zone formatting is not modelled)
build_row(d, line) ==
    IF RowPower(line).t = "raise" \/ RowPack(line).t = "raise" THEN RaiseV
    ELSE [ t          |-> "row",
           Material   |-> RowItemName(line),
           Potencia   |-> IF RowPower(line).v[1] # 0 THEN Num(RTrunc(RowPower(line).v)) ELSE Dash,
           Cantidad   |-> RTrunc(line.qty),
           Pallets    |-> Pallets(line.qty, RowPack(line).upp),
           Leftover   |-> RowPack(line).leftover,
           Cliente    |-> Or(Or(Get(d, "contactName"), Dash), Dash),
           PrecioW    |-> compute_price_per_w(line.amount, line.qty, RowPower(line).v),
           Transporte |-> extract_transport_amount_from_doc(d) ]

\* material_lines = [ln for ln in lines if not ln.get("is_transport")]
material_lines(lines) == SelectSeq(lines, LAMBDA ln : ~ln.is_transport)

\* rows = [build_row(doc, ln) for ln in material_lines]
BuildRows(d) ==
    [i \in DOMAIN material_lines(iter_document_lines(Or(Get(d, "products"), EmptyList).v)) |->
        build_row(d, material_lines(iter_document_lines(Or(Get(d, "products"), EmptyList).v))[i])]

(***************************************************************************)
(* src/mail.py : the ledger of processed invoices                          *)
(***************************************************************************)
\* number or docNumber or code or serial or _id or id or "-"
doc_number(d) ==
    Or(Get(d, "number"), Or(Get(d, "docNumber"), Or(Get(d, "code"),
       Or(Get(d, "serial"), Or(Get(d, "_id"), Or(Get(d, "id"), Str(<<"-">>)))))))

\* the state file: absent, unparsable, or the JSON list that save wrote
FileAbsent  == [t |-> "absent",  v |-> {}]
FileCorrupt == [t |-> "corrupt", v |-> {}]
FileJson(ids) == [t |-> "json", v |-> ids]

\* set(json.loads(text)) if the file exists and parses, else set()
load_processed_invoices(file) == IF file.t = "json" THEN file.v ELSE {}

\* write_text(json.dumps(sorted(ids)))
save_processed_invoices(ids) == FileJson(ids)

\* {doc_number(inv) for inv in batch}
BatchIds(batch) == {doc_number(batch[i].v) : i \in DOMAIN batch}

\* a slip: the ledger is not consulted
new_invoices_unfiltered(batch, processed) == batch

\* new_invoices = [inv for inv in invoices_all if doc_number(inv) not in processed_invoices]
new_invoices_of(batch, processed) ==
    SelectSeq(batch, LAMBDA x : doc_number(x.v) \notin processed)

\* a slip: the saved set holds the batch only
all_ids_batch_only(processed, batch) == BatchIds(batch)

\* all_ids = processed_invoices.union(doc_number(inv) for inv in invoices_all)
all_ids(processed, batch) == processed \cup BatchIds(batch)

(***************************************************************************)
(* Each function is exercised on its own: the argument is drawn by the     *)
(* initial state, the call stores the returned value.  The variables of    *)
(* the other functions stay at rest.                                       *)
(***************************************************************************)
\* what a call left behind: nothing yet, or the value it returned
Pending     == [st |-> "pending",  v |-> RZero]
Returned(x) == [st |-> "returned", v |-> x]
Raised      == [st |-> "raised",   v |-> RZero]
\* a call that computes x: an exception leaves the function, or x is returned
Outcome(x)  == IF x.t = "raise" THEN Raised ELSE Returned(x)
Absent  == [t |-> "absent", v |-> RZero]

\* a dict from <<key, value>> pairs, the pairs whose value is Absent left out
DictOf(pairs) ==
    LET keep == {i \in DOMAIN pairs : pairs[i][2].t # "absent"}
    IN  Dict([k \in {pairs[i][1] : i \in keep} |->
                LET i == CHOOSE j \in keep : pairs[j][1] = k IN pairs[i][2]])

RECURSIVE SeqsUpTo(_, _)
SeqsUpTo(S, n) ==
    IF n = 0 THEN {<<>>}
    ELSE LET shorter == SeqsUpTo(S, n - 1)
         IN  shorter \cup {Append(q, x) : q \in {r \in shorter : Len(r) = n - 1}, x \in S}

RestSubtotal == doc = NoneV /\ subtotal_out = Pending
RestStatus   == inv = NoneV /\ finalized_out = Pending
RestFields   == /\ container = NoneV /\ candidates = <<>> /\ field_default = NoneV
                /\ field_out = Pending
RestPower    == product = NoneV /\ item_name = <<>> /\ item_sku = <<>> /\ power_out = Pending
RestPack     == qty = 0 /\ pack_out = Pending
RestRows     == order = NoneV /\ rows_out = Pending
RestLedger   == /\ state_file = NoneV /\ settled = {} /\ pc = "idle"
                /\ processed_invoices = {} /\ invoices_all = <<>>
                /\ new_invoices = <<>> /\ reported = {}

(***************************************************************************)
(* get_subtotal on documents                                               *)
(***************************************************************************)
MaxLines == 2

\* {price 10, qty 2}, {price 5, qty 1, discountAmount 1}: the lines of the spec's example
LineA == DictOf(<< <<"price", Num(10)>>, <<"quantity", Num(2)>> >>)
LineB == DictOf(<< <<"price", Num(5)>>, <<"quantity", Num(1)>>, <<"discountAmount", Num(1)>> >>)
\* an explicit per-line base, negative (a credit line)
LineC == DictOf(<< <<"subtotal", Num(-3)>>, <<"price", Num(10)>> >>)
\* discounts that exceed the line: 10 * 1 * (1 - 50/100) - 30 < 0
LineD == DictOf(<< <<"unitPrice", Num(10)>>, <<"discount", Num(50)>>, <<"discount_amount", Num(30)>> >>)
\* quantity 0, fractional discount 1/2
LineE == DictOf(<< <<"price", Num(10)>>, <<"quantity", Num(0)>>, <<"discount", Frac(1, 2)>> >>)
\* a line that is not a dict
LineF == Str(<<"x">>)
LineSet == {LineA, LineB, LineC, LineD, LineE, LineF}

RootSubtotalVals == {Absent, Num(100), Num(-5), NoneV, Str(<<"a", "b", "c">>), Str(<<"1", "2", ",", "5">>)}
RootNetVals      == {Absent, Num(80)}
TotalsVals ==
    { Absent, NoneV, Str(<<"x">>),
      DictOf(<< <<"taxBase", Num(50)>> >>),
      DictOf(<< <<"net", Num(-5)>>, <<"total", Num(10)>> >>),
      DictOf(<< <<"total", Num(121)>>, <<"tax", Num(21)>> >>),
      DictOf(<< <<"total", Num(10)>>, <<"vatAmount", Num(30)>> >>),
      DictOf(<< <<"base", Str(<<"n", "/", "a">>)>>, <<"total", Num(121)>>, <<"tax", Num(21)>> >>) }
LinesVals    == {Absent} \cup {List(q) : q \in SeqsUpTo(LineSet, MaxLines)}
ProductsVals == {Absent, List(<<LineB>>)}
TotalVals    == {Absent, Num(121), Num(0)}
TaxVals      == {Absent, Num(21)}

MkDocument(rs, rn, tt, ln, pr, to, tx) ==
    DictOf(<< <<"subtotal", rs>>, <<"net", rn>>, <<"totals", tt>>, <<"lines", ln>>,
              <<"products", pr>>, <<"total", to>>, <<"tax", tx>> >>)

InitSubtotal ==
    /\ \/ \E rs \in RootSubtotalVals, rn \in RootNetVals, tt \in TotalsVals, ln \in LinesVals,
              pr \in ProductsVals, to \in TotalVals, tx \in TaxVals :
                doc = MkDocument(rs, rn, tt, ln, pr, to, tx)
       \/ doc \in {NoneV, List(<<LineA>>)}
    /\ subtotal_out = Pending
    /\ RestStatus /\ RestFields /\ RestPower /\ RestPack /\ RestRows /\ RestLedger

CallGetSubtotal ==
    /\ subtotal_out.st = "pending"
    /\ subtotal_out' = Returned(get_subtotal(doc))
    /\ UNCHANGED <<doc, varsStatus, varsFields, varsPower, varsPack, varsRows, varsLedger>>

NextSubtotal == CallGetSubtotal
SpecSubtotal == InitSubtotal /\ [][NextSubtotal]_vars


(***************************************************************************)
(* Claims about get_subtotal                                               *)
(***************************************************************************)
\* C1 (as claimed): get_subtotal never returns a negative number, whatever the
\* document's root keys, totals keys, lines and total/tax fields hold.
C1_NeverNegative ==
    subtotal_out.st = "returned" => RLe(RZero, subtotal_out.v)

\* C10: get_subtotal resolves in strict tier order, first success wins: the first
\* candidate key held by the document root; else the first candidate key held by
\* totals; else the sum over the lines; else max(total - tax, 0); else 0.  A root
\* subtotal of 100 is returned whatever the lines sum to, and a document holding
\* only total = 121 and tax = 21 returns 100.
FirstCandidate(d) ==
    CHOOSE i \in DOMAIN candidate_keys :
        /\ candidate_keys[i] \in DOMAIN d
        /\ \A j \in 1..(i - 1) : candidate_keys[j] \notin DOMAIN d
AnyCandidate(d) == \E i \in DOMAIN candidate_keys : candidate_keys[i] \in DOMAIN d

C10_TierOrder ==
    (subtotal_out.st = "returned" /\ doc.t = "dict") =>
        LET d      == doc.v
            out    == subtotal_out.v
            totals == IF "totals" \in DOMAIN d /\ Truthy(d["totals"]) THEN d["totals"]
                      ELSE EmptyDict
            tier1  == AnyCandidate(d)
            tier1b == totals.t = "dict" /\ AnyCandidate(totals.v)
            tier2  == HasLines(d)
        IN  /\ tier1 => out = _as_float(d[candidate_keys[FirstCandidate(d)]])
            /\ (~tier1 /\ tier1b) =>
                   out = _as_float(totals.v[candidate_keys[FirstCandidate(totals.v)]])
            /\ (~tier1 /\ ~tier1b /\ tier2) => out = LinesSubtotal(d)
            /\ (~tier1 /\ ~tier1b /\ ~tier2) => out = TotalMinusTax(d)
            /\ ("subtotal" \in DOMAIN d /\ d["subtotal"].t = "num"
                    /\ d["subtotal"].v = RInt(100)) => out = RInt(100)
            /\ (DOMAIN d = {"total", "tax"} /\ d["total"].t = "num" /\ d["tax"].t = "num"
                    /\ d["total"].v = RInt(121) /\ d["tax"].v = RInt(21)) => out = RInt(100)

\* a document with root subtotal 100 and lines that sum to something else has been resolved
C10_Witness ==
    /\ subtotal_out.st = "returned"
    /\ doc.t = "dict"
    /\ "subtotal" \in DOMAIN doc.v /\ doc.v["subtotal"].t = "num"
    /\ doc.v["subtotal"].v = RInt(100)
    /\ HasLines(doc.v) /\ LinesSubtotal(doc.v) = RInt(24)
    /\ subtotal_out.v = RInt(100)

\* C11 (as claimed): a candidate key whose value cannot be coerced to a number
\* (null or non-numeric text) is treated like a missing key: get_subtotal gives
\* what it gives for the same document without that key, at the root and in
\* totals alike.
Uncoercible(v) ==
    \/ v.t = "none"
    \/ v.t = "str" /\ ~ParseFloat(CommaToDot(Strip(v.v)))[1]
Without(d, k) == [x \in (DOMAIN d) \ {k} |-> d[x]]
WithTotals(d, tt) == [x \in DOMAIN d |-> IF x = "totals" THEN tt ELSE d[x]]

C11_ParseFailureFallsThrough ==
    (subtotal_out.st = "returned" /\ doc.t = "dict") =>
        /\ (AnyCandidate(doc.v) /\ Uncoercible(doc.v[candidate_keys[FirstCandidate(doc.v)]]))
              => subtotal_out.v =
                    get_subtotal(Dict(Without(doc.v, candidate_keys[FirstCandidate(doc.v)])))
        /\ (~AnyCandidate(doc.v) /\ HasTotalsSubtotal(doc.v)
                /\ Uncoercible(TotalsOf(doc.v).v[candidate_keys[FirstCandidate(TotalsOf(doc.v).v)]]))
              => subtotal_out.v =
                    get_subtotal(Dict(WithTotals(doc.v,
                        Dict(Without(TotalsOf(doc.v).v,
                                     candidate_keys[FirstCandidate(TotalsOf(doc.v).v)])))))

\* C17 (as claimed): in the line-by-line reconstruction a line with an explicit
\* base field contributes that base and every other line contributes
\* max(0, unitPrice x quantity x (1 - d) - discountAmount), d the discount itself
\* when <= 1 and discount/100 when > 1, for every quantity including 0 (such a
\* line contributes 0); the result is the sum over the lines, 24 for the lines
\* {price 10, qty 2} and {price 5, qty 1, discountAmount 1}.
quantity_keys == <<"quantity", "qty", "units">>
ClaimedQty(l) ==
    IF \E i \in DOMAIN quantity_keys : quantity_keys[i] \in DOMAIN l
    THEN _as_float(l[quantity_keys[CHOOSE i \in DOMAIN quantity_keys :
                        /\ quantity_keys[i] \in DOMAIN l
                        /\ \A k \in 1..(i - 1) : quantity_keys[k] \notin DOMAIN l]])
    ELSE ROne
ClaimedRate(d) == IF RLe(d, ROne) THEN d ELSE RMul(d, <<1, 100>>)
ClaimedLine(ln) ==
    IF ln.t # "dict" THEN RZero
    ELSE IF \E i \in DOMAIN line_base_keys : line_base_keys[i] \in DOMAIN ln.v
    THEN LineBase(ln)
    ELSE RMax(RZero,
              RSub(RMul(RMul(LinePrice(ln.v), ClaimedQty(ln.v)),
                        RSub(ROne, ClaimedRate(LineDiscPct(ln.v)))),
                   LineDiscAbs(ln.v)))
RECURSIVE ClaimedSum(_)
ClaimedSum(ls) == IF ls = <<>> THEN RZero ELSE RAdd(ClaimedLine(ls[1]), ClaimedSum(Tail(ls)))

C17_LineReconstruction ==
    ( /\ subtotal_out.st = "returned" /\ doc.t = "dict"
      /\ ~HasRootSubtotal(doc.v) /\ ~HasTotalsSubtotal(doc.v) /\ HasLines(doc.v) )
    => subtotal_out.v = ClaimedSum(LinesOf(doc.v).v)



(***************************************************************************)
(* src/mail.py : _norm_text, is_invoice_finalized                          *)
(***************************************************************************)
_norm_text(x) == IF x.t = "none" THEN <<>> ELSE Lower(Strip(PyStr(x)))

\* raw = inv.get("status") or inv.get("state") or inv.get("docStatus") or inv.get("statusCode")
RawStatus(i) ==
    Or(Get(i, "status"), Or(Get(i, "state"), Or(Get(i, "docStatus"), Get(i, "statusCode"))))

cancel_flags == <<"cancelled", "canceled", "isCanceled", "void", "voided">>

\* x in (True, "true", 1, "1")
IsSetFlag(x) ==
    CASE x.t = "bool" -> x.v
      [] x.t = "num"  -> x.v = ROne
      [] x.t = "str"  -> x.v = <<"t", "r", "u", "e">> \/ x.v = <<"1">>
      [] OTHER        -> FALSE

AnyCancelFlag(i) == \E k \in DOMAIN cancel_flags : IsSetFlag(Get(i, cancel_flags[k]))

\* isinstance(raw, (int, float)); bool is an int in Python
IsNumeric(x) == x.t \in {"num", "bool"}
\* int(raw)
StatusCode(x) == IF x.t = "bool" THEN (IF x.v THEN 1 ELSE 0) ELSE RTrunc(x.v)

void_tokens  == {<<"c", "a", "n", "c", "e", "l">>, <<"a", "n", "u", "l">>, <<"v", "o", "i", "d">>}
draft_tokens == {<<"d", "r", "a", "f", "t">>, <<"b", "o", "r", "r", "a", "d", "o", "r">>,
                 <<"t", "e", "m", "p">>}

\* a slip: the draft tokens are not looked for
TextFinalizedVoidOnly(status_txt) ==
    ~\E tok \in void_tokens : Contains(tok, status_txt)

TextFinalized(status_txt) ==
    /\ ~\E tok \in void_tokens : Contains(tok, status_txt)
    /\ ~\E tok \in draft_tokens : Contains(tok, status_txt)

is_invoice_finalized(x) ==
    /\ ~AnyCancelFlag(x.v)
    /\ ~(IsNumeric(RawStatus(x.v)) /\ StatusCode(RawStatus(x.v)) \in {0, 9, 99})
    /\ TextFinalized(_norm_text(RawStatus(x.v)))

(***************************************************************************)
(* is_invoice_finalized on invoices                                        *)
(***************************************************************************)
StatusVals ==
    { Absent, NoneV, Num(0), Num(1), Num(9), Num(99), Num(2), EmptyStr,
      Str(<<"C", "a", "n", "c", "e", "l", "a", "d", "o">>),
      Str(<<"P", "a", "g", "a", "d", "a">>),
      Str(<<" ", "D", "r", "a", "f", "t">>),
      Str(<<"a", "t", "t", "e", "m", "p", "t">>) }
StateVals      == {Absent, Num(0), Num(3), Str(<<"A", "N", "U", "L", "A", "D", "A">>)}
DocStatusVals  == {Absent, Num(9), Str(<<"b", "o", "r", "r", "a", "d", "o", "r">>)}
StatusCodeVals == {Absent, Num(0), Num(99), Num(5), Frac(19, 2)}
CancelledVals  == {Absent, Bool(TRUE), Bool(FALSE), Num(1), Num(0),
                   Str(<<"t", "r", "u", "e">>), Str(<<"y", "e", "s">>)}
VoidedVals     == {Absent, Str(<<"1">>), NoneV}
IsCanceledVals == {Absent, Bool(TRUE)}

InitStatus ==
    /\ \E st \in StatusVals, sa \in StateVals, ds \in DocStatusVals, sc \in StatusCodeVals,
          ca \in CancelledVals, vo \in VoidedVals, ic \in IsCanceledVals :
            inv = DictOf(<< <<"status", st>>, <<"state", sa>>, <<"docStatus", ds>>,
                            <<"statusCode", sc>>, <<"cancelled", ca>>, <<"voided", vo>>,
                            <<"isCanceled", ic>> >>)
    /\ finalized_out = Pending
    /\ RestSubtotal /\ RestFields /\ RestPower /\ RestPack /\ RestRows /\ RestLedger

CallIsInvoiceFinalized ==
    /\ finalized_out.st = "pending"
    /\ finalized_out' = Returned(is_invoice_finalized(inv))
    /\ UNCHANGED <<inv, varsSubtotal, varsFields, varsPower, varsPack, varsRows, varsLedger>>

NextStatus == CallIsInvoiceFinalized
SpecStatus == InitStatus /\ [][NextStatus]_vars

\* C2 (as claimed): an invoice with no set cancellation flag whose status is a
\* numeric code, held by one of the keys status, state, docStatus, statusCode, is
\* not finalized when the code is 0, 9 or 99 and finalized for every other code; in
\* particular status = 0 is not finalized.
status_keys == <<"status", "state", "docStatus", "statusCode">>
C2_NumericCodes ==
    finalized_out.st = "returned" =>
        \A k \in DOMAIN status_keys :
            ( /\ ~AnyCancelFlag(inv.v)
              /\ DOMAIN inv.v \cap {status_keys[j] : j \in DOMAIN status_keys} = {status_keys[k]}
              /\ inv.v[status_keys[k]].t = "num"
              /\ inv.v[status_keys[k]].v[2] = 1 )
            => (finalized_out.v <=> inv.v[status_keys[k]].v[1] \notin {0, 9, 99})

\* C12: for an invoice whose status is text or absent, is_invoice_finalized is
\* true exactly when no cancellation flag (cancelled, canceled, isCanceled, void,
\* voided) is set and the lower-cased status text contains none of cancel, anul,
\* void, draft, borrador, temp; a set flag gives not-finalized whatever the
\* status says, and an absent status with no flag gives finalized.  A flag is
\* set when it holds true, 1, "true" or "1".
FlagSet(i, k) ==
    /\ k \in DOMAIN i
    /\ \/ i[k].t = "bool" /\ i[k].v
       \/ i[k].t = "num" /\ i[k].v = <<1, 1>>
       \/ i[k].t = "str" /\ i[k].v \in {<<"t", "r", "u", "e">>, <<"1">>}
NoFlagSet(i) == \A k \in {"cancelled", "canceled", "isCanceled", "void", "voided"} : ~FlagSet(i, k)

\* every status key is absent, null or text
TextOrAbsentStatus(i) ==
    \A k \in DOMAIN status_keys :
        status_keys[k] \in DOMAIN i => i[status_keys[k]].t \in {"none", "str"}
HoldsText(i, k) ==
    status_keys[k] \in DOMAIN i /\ i[status_keys[k]].t = "str" /\ i[status_keys[k]].v # <<>>
\* the text of the first status key that holds some, lower-cased; empty if none does
StatusText(i) ==
    IF \E k \in DOMAIN status_keys : HoldsText(i, k)
    THEN Lower(i[status_keys[CHOOSE k \in DOMAIN status_keys :
                    HoldsText(i, k) /\ \A j \in 1..(k - 1) : ~HoldsText(i, j)]].v)
    ELSE <<>>
status_tokens ==
    {<<"c", "a", "n", "c", "e", "l">>, <<"a", "n", "u", "l">>, <<"v", "o", "i", "d">>, <<"d", "r", "a", "f", "t">>, <<"b", "o", "r", "r", "a", "d", "o", "r">>, <<"t", "e", "m", "p">>}
NoToken(txt) == \A tok \in status_tokens : ~Contains(tok, txt)

C12_TextStatus ==
    (finalized_out.st = "returned" /\ TextOrAbsentStatus(inv.v)) =>
        /\ finalized_out.v <=> (NoFlagSet(inv.v) /\ NoToken(StatusText(inv.v)))
        /\ ~NoFlagSet(inv.v) => ~finalized_out.v
        /\ (NoFlagSet(inv.v) /\ StatusText(inv.v) = <<>>) => finalized_out.v

\* a paid invoice with the cancelled flag "true" has been judged not finalized
C12_Witness ==
    /\ finalized_out.st = "returned"
    /\ TextOrAbsentStatus(inv.v)
    /\ FlagSet(inv.v, "cancelled")
    /\ inv.v["cancelled"].t = "str"
    /\ StatusText(inv.v) = <<"p", "a", "g", "a", "d", "a">>
    /\ ~finalized_out.v


(***************************************************************************)
(* try_fields on records that expose two keys in the four representations  *)
(***************************************************************************)
MaxEntries == 2

FieldVals == {Num(610), Str(<<"6", "0", "5">>), EmptyStr, EmptyList, NoneV}
FirstKeyVals  == {Absent} \cup FieldVals
SecondKeyVals == {Absent, Num(400)}

FieldMaps ==
    {DictOf(<< <<"power_w", a>>, <<"Potencia", b>> >>) : a \in FirstKeyVals, b \in SecondKeyVals}
FieldEntries ==
    {DictOf(<< <<"field", Str(KeyChars("power_w"))>>, <<"value", a>> >>) :
        a \in {Num(610), EmptyList, NoneV}}
    \cup {DictOf(<< <<"field", Str(KeyChars("Potencia"))>>, <<"value", Num(400)>> >>),
          Str(<<"x">>)}
AttributesVals   == {Absent, NoneV, Num(7), Str(<<"n", "/", "a">>),
                     List(<<Str(KeyChars("power_w"))>>)} \cup FieldMaps
CustomFieldsVals == {Absent, Num(7), Str(<<"n", "/", "a">>)} \cup FieldMaps
                       \cup {List(q) : q \in SeqsUpTo(FieldEntries, MaxEntries)}
CandidateLists == {<<"power_w", "Potencia">>, <<"Potencia", "power_w">>, <<"power_w">>}

InitFields ==
    /\ \E a \in FirstKeyVals, b \in SecondKeyVals, at \in AttributesVals,
          cf \in CustomFieldsVals :
            container = DictOf(<< <<"power_w", a>>, <<"Potencia", b>>,
                                  <<"attributes", at>>, <<"customFields", cf>> >>)
    /\ candidates \in CandidateLists
    /\ field_default \in {NoneV, Num(0)}
    /\ field_out = Pending
    /\ RestSubtotal /\ RestStatus /\ RestPower /\ RestPack /\ RestRows /\ RestLedger

CallTryFields ==
    /\ field_out.st = "pending"
    /\ field_out' = Outcome(try_fields(container, candidates, field_default))
    /\ UNCHANGED <<container, candidates, field_default,
                   varsSubtotal, varsStatus, varsPower, varsPack, varsRows, varsLedger>>

NextFields == CallTryFields
SpecFields == InitFields /\ [][NextFields]_vars


\* C9: try_fields returns the value found at the first (candidate, representation)
\* pair -- candidates in the given order and, for each, the representations in the
\* order top-level key, attributes map, customFields map, customFields list of
\* {field, value} pairs -- whose value is not null, "" or []; it returns the caller's
\* default when no pair qualifies.  So one key/value placed in any one of the four
\* representations resolves to the same value.
IsEmptyValue(x) == x.t = "none" \/ (x.t \in {"str", "list"} /\ x.v = <<>>)

Member(c, name, key) ==
    IF name \in DOMAIN c /\ c[name].t = "dict" /\ key \in DOMAIN c[name].v
    THEN c[name].v[key] ELSE Absent

PairValues(c, key) ==
    IF "customFields" \in DOMAIN c /\ c["customFields"].t = "list"
    THEN LET es == c["customFields"].v
             ok == {i \in DOMAIN es :
                       /\ es[i].t = "dict"
                       /\ {"field", "value"} \subseteq DOMAIN es[i].v
                       /\ es[i].v["field"] = Str(KeyChars(key))
                       /\ ~IsEmptyValue(es[i].v["value"])}
         IN  IF ok = {} THEN Absent
             ELSE es[CHOOSE i \in ok : \A j \in ok : i <= j].v["value"]
    ELSE Absent

RepValue(c, key, r) ==
    CASE r = 1 -> IF key \in DOMAIN c THEN c[key] ELSE Absent
      [] r = 2 -> Member(c, "attributes", key)
      [] r = 3 -> Member(c, "customFields", key)
      [] r = 4 -> PairValues(c, key)

Qualifying(c, cands) ==
    {p \in (DOMAIN cands) \X (1..4) :
        RepValue(c, cands[p[1]], p[2]).t # "absent" /\ ~IsEmptyValue(RepValue(c, cands[p[1]], p[2]))}

FirstPair(Q) ==
    CHOOSE p \in Q : \A q \in Q : p[1] < q[1] \/ (p[1] = q[1] /\ p[2] <= q[2])

\* key |-> val alone in representation r
OneRep(r, key, val) ==
    CASE r = 1 -> DictOf(<< <<key, val>> >>)
      [] r = 2 -> DictOf(<< <<"attributes", DictOf(<< <<key, val>> >>)>> >>)
      [] r = 3 -> DictOf(<< <<"customFields", DictOf(<< <<key, val>> >>)>> >>)
      [] r = 4 -> DictOf(<< <<"customFields",
                     List(<< DictOf(<< <<"field", Str(KeyChars(key))>>, <<"value", val>> >>) >>)>> >>)

C9_FirstQualifyingPair ==
    field_out.st = "returned" =>
        /\ IF Qualifying(container.v, candidates) = {}
           THEN field_out.v = field_default
           ELSE field_out.v = RepValue(container.v,
                                  candidates[FirstPair(Qualifying(container.v, candidates))[1]],
                                  FirstPair(Qualifying(container.v, candidates))[2])
        /\ \A val \in FieldVals, r \in 1..4 :
               try_fields(OneRep(r, candidates[1], val), candidates, field_default)
                   = IF IsEmptyValue(val) THEN field_default ELSE val

\* the first candidate's top-level value is empty and its value is taken from a
\* later entry of the customFields list
C9_Witness ==
    /\ field_out.st = "returned"
    /\ candidates[1] = "power_w"
    /\ "power_w" \in DOMAIN container.v /\ container.v["power_w"] = EmptyStr
    /\ Member(container.v, "attributes", "power_w").t = "absent"
    /\ "customFields" \in DOMAIN container.v /\ container.v["customFields"].t = "list"
    /\ Len(container.v["customFields"].v) = 2
    /\ container.v["customFields"].v[1].t = "dict"
    /\ Get(container.v["customFields"].v[1].v, "value") = NoneV
    /\ field_out.v = Num(610)


\* C13 (as claimed): for a record that is a map, whatever its attributes and
\* customFields members are (absent, null, map, list, string, number), try_fields
\* returns a value or the default and never raises.
C13_NeverRaises ==
    (field_out.st # "pending" /\ container.t = "dict") => field_out.st = "returned"

(***************************************************************************)
(* extract_power_w on products and line texts                              *)
(***************************************************************************)
TxtPanel605W == <<"P", "a", "n", "e", "l", " ", "A", "I", "K", "O", " ", "6", "0", "5", "W", " ", "m", "o", "n", "o">>
TxtSkuA605 == <<"S", "K", "U", "-", "A", "6", "0", "5", "-", "X">>
TxtCable12 == <<"C", "a", "b", "l", "e", "-", "1", "2">>
Txt400W == <<"M", "o", "d", " ", "4", "0", "0", "W">>
Txt605Wp == <<"6", "0", "5", " ", "W", "p">>
Txt12345W == <<"1", "2", "3", "4", "5", "W", " ", "2", "0", "2", "4">>
Txt1000w450 == <<"1", "0", "0", "0", "w", " ", "A", "4", "5", "0">>
TxtAiko == <<"A", "I", "K", "O", " ", "M", "A", "H", "7", "2", "M">>
TxtRef700 == <<"r", "e", "f", " ", "7", "0", "0">>

ItemNames    == {<<>>, <<"-">>, TxtPanel605W, TxtSkuA605, TxtCable12, Txt400W, Txt12345W, Txt1000w450}
ItemSkus     == {<<>>, Txt605Wp, TxtRef700, TxtSkuA605}
ProductNames == {Absent, Str(Txt605Wp), Str(TxtPanel605W), Str(TxtRef700), Num(450)}
ProductSkus  == {Absent, Str(Txt400W), Str(TxtCable12)}
PowerAttrs   == {Absent, Num(610), Num(0), Str(<<"6", "1", "0", ".", "5">>), Str(Txt605Wp), EmptyStr}

InitPower ==
    /\ \E pw \in PowerAttrs, pn \in ProductNames, ps \in ProductSkus :
          product = DictOf(<< <<"name", pn>>, <<"sku", ps>>,
                              <<"attributes", DictOf(<< <<"Potencia", pw>> >>)>> >>)
    /\ item_name \in ItemNames
    /\ item_sku \in ItemSkus
    /\ power_out = Pending
    /\ qty = 0 /\ pack_out = Pending
    /\ RestSubtotal /\ RestStatus /\ RestFields /\ RestRows /\ RestLedger

CallExtractPowerW ==
    /\ power_out.st = "pending"
    /\ power_out' = Outcome(extract_power_w(product, item_name, item_sku))
    /\ UNCHANGED <<product, item_name, item_sku, varsPack,
                   varsSubtotal, varsStatus, varsFields, varsRows, varsLedger>>

NextPower == CallExtractPowerW
SpecPower == InitPower /\ [][NextPower]_vars

\* C3 (as claimed): with no parseable explicit power attribute, step 2 returns the
\* maximum, over all four text sources together, of the W-suffixed 3-4 digit numbers
\* in 300..1000; item name "... 400W" with product name "605 Wp" yields 605.
AllWatt(texts) == UNION {Plausible(WattMatches(texts[i])) : i \in DOMAIN texts}
C3_MaxOverAllSources ==
    ( /\ power_out.st = "returned"
      /\ ~(NonEmpty(try_fields(product, power_keys, NoneV))
             /\ FloatOf(try_fields(product, power_keys, NoneV))[1])
      /\ AllWatt(PowerTexts(product, item_name, item_sku)) # {} )
    => power_out.v = Num(SetMax(AllWatt(PowerTexts(product, item_name, item_sku))))

\* C18: extract_power_w follows its resolution order.  A parseable explicit
\* power attribute is returned whatever the texts say; an unparseable one falls
\* through to the text scans.  A result that comes from the texts is 0 or a
\* number of 300..1000 that is a run of 3 or 4 digits in one of the four text
\* sources; it is a W-suffixed one whenever some source has a W-suffixed number
\* in range (the bare-number scan is used only otherwise); and it is 0 only when
\* no source holds a run of 3 or 4 digits in range.
PowerAttr == try_fields(product, power_keys, NoneV)
ParseableAttr == NonEmpty(PowerAttr) /\ FloatOf(PowerAttr)[1]
AllBare(texts) == UNION {Plausible(BareMatches(texts[i])) : i \in DOMAIN texts}
SourceTexts == PowerTexts(product, item_name, item_sku)

C18_ResolutionOrder ==
    power_out.st = "returned" =>
        /\ ParseableAttr => power_out.v.v = FloatOf(PowerAttr)[2]
        /\ ~ParseableAttr =>
              /\ \/ power_out.v = Num(0)
                 \/ \E n \in AllBare(SourceTexts) : power_out.v = Num(n)
              /\ AllWatt(SourceTexts) # {} =>
                    \E n \in AllWatt(SourceTexts) : power_out.v = Num(n)
              /\ AllWatt(SourceTexts) = {} /\ AllBare(SourceTexts) # {} =>
                    power_out.v = Num(SetMax(AllBare(SourceTexts)))
              /\ power_out.v = Num(0) => AllBare(SourceTexts) = {}

\* an attribute that does not parse ("605 Wp"), no W-suffixed number in the
\* texts, and the largest bare number of the texts returned
C18_Witness ==
    /\ power_out.st = "returned"
    /\ NonEmpty(PowerAttr) /\ ~FloatOf(PowerAttr)[1]
    /\ AllWatt(SourceTexts) = {}
    /\ Cardinality(AllBare(SourceTexts)) > 1
    /\ power_out.v = Num(SetMax(AllBare(SourceTexts)))


(***************************************************************************)
(* infer_units_per_pallet on products, line texts and quantities           *)
(***************************************************************************)
MaxQty == 75

TxtAiko605 == <<"a", "i", "k", "o", " ", "n", "e", "o", " ", "6", "0", "5">>
TxtAiko605W == <<"A", "I", "K", "O", "-", "6", "0", "5", "W">>
TxtMah == <<"M", "A", "H", "7", "2", "M", " ", "a", "i", "k", "o">>

QtyVals == ((-2)..MaxQty) \cup {108, 180, 930, 1260, 1332}
PackAttrs == {Absent, Num(40), Num(0), Num(-5), Frac(73, 2), Str(<<"3", "6">>),
              Str(<<"a", "b", "c">>), EmptyList}
PackItemNames    == {<<"-">>, TxtPanel605W, TxtAiko605, TxtAiko605W, TxtMah}
PackProductNames == {Absent, Str(TxtAiko), Str(TxtCable12)}

InitPack ==
    /\ \E up \in PackAttrs, pn \in PackProductNames :
          product = DictOf(<< <<"name", pn>>,
                              <<"customFields", DictOf(<< <<"ud_pallet", up>> >>)>> >>)
    /\ item_name \in PackItemNames
    /\ item_sku \in {<<>>, TxtSkuA605}
    /\ qty \in QtyVals
    /\ power_out = Pending /\ pack_out = Pending
    /\ RestSubtotal /\ RestStatus /\ RestFields /\ RestRows /\ RestLedger

CallInferUnitsPerPallet ==
    /\ pack_out.st = "pending"
    /\ pack_out' = Outcome(infer_units_per_pallet(product, item_name, item_sku, qty))
    /\ UNCHANGED <<product, item_name, item_sku, power_out, qty,
                   varsSubtotal, varsStatus, varsFields, varsRows, varsLedger>>

NextPack == CallInferUnitsPerPallet
SpecPack == InitPack /\ [][NextPack]_vars

\* neither an explicit attribute nor a pattern rule decides the pack size
NoAttrNoPattern ==
    /\ ~RLt(RZero, extract_units_per_pallet(product).v)
    /\ hint_units_per_pallet_by_pattern(item_name, item_sku, product) = 0

\* C4 (as claimed): quantity 70 with no explicit attribute and no pattern match
\* yields provenance "closest".
C4_Seventy_Closest ==
    (pack_out.st = "returned" /\ qty = 70 /\ NoAttrNoPattern)
        => pack_out.v.source = "closest"

\* C4 (amended): quantity 70 with no explicit attribute and no pattern match yields
\* pack size 35 with provenance "divisible", no rejected alternatives and leftover 0:
\* 35 is the one listed size that divides 70.
C4_Seventy_Divisible ==
    (pack_out.st = "returned" /\ qty = 70 /\ NoAttrNoPattern)
        => /\ pack_out.v.source = "divisible"
           /\ pack_out.v.upp = RInt(35)
           /\ pack_out.v.others = <<>>
           /\ pack_out.v.leftover = 0

C4_Witness ==
    /\ pack_out.st = "returned" /\ qty = 70 /\ NoAttrNoPattern
    /\ "customFields" \in DOMAIN product.v
    /\ pack_out.v.upp = RInt(35)

\* C6: provenance "unknown" is returned only when the quantity is zero, the pack
\* size is > 0 in every other case, and it is 0 exactly when provenance is "unknown".
C6_UnknownOnlyForZeroQty ==
    pack_out.st = "returned" =>
        /\ pack_out.v.source = "unknown" => qty = 0
        /\ pack_out.v.source # "unknown" => RLt(RZero, pack_out.v.upp)
        /\ pack_out.v.upp = RZero <=> pack_out.v.source = "unknown"

\* quantity 0, nothing known about the product: unknown, pack size 0
C6_Witness ==
    /\ pack_out.st = "returned" /\ qty = 0 /\ NoAttrNoPattern
    /\ pack_out.v.source = "unknown" /\ pack_out.v.upp = RZero

\* the explicit attribute of the product, and the pack size of the first
\* matching pattern rule (0 when none matches)
AttrSize == extract_units_per_pallet(product).v
PatternSize == hint_units_per_pallet_by_pattern(item_name, item_sku, product)

\* C15 (as claimed): a positive explicit attribute always wins with provenance
\* "attr", otherwise the first matching pattern wins with provenance "pattern";
\* in both cases the rejected list is empty and leftover = quantity mod packSize
\* (0 when quantity is 0).
C15_TierPrecedence ==
    pack_out.st = "returned" =>
        /\ RLt(RZero, AttrSize) =>
              /\ pack_out.v.source = "attr" /\ pack_out.v.upp = AttrSize
              /\ pack_out.v.others = <<>>
              /\ RInt(pack_out.v.leftover) = IF qty = 0 THEN RZero ELSE FloatMod(qty, AttrSize)
        /\ (~RLt(RZero, AttrSize) /\ PatternSize > 0) =>
              /\ pack_out.v.source = "pattern" /\ pack_out.v.upp = RInt(PatternSize)
              /\ pack_out.v.others = <<>>
              /\ pack_out.v.leftover = IF qty = 0 THEN 0 ELSE qty % PatternSize

\* C15 (amended): the same precedence, with leftover the integer part of
\* quantity mod packSize (the two differ when the explicit pack size is not a
\* whole number).
C15_TierPrecedenceWholeLeftover ==
    pack_out.st = "returned" =>
        /\ RLt(RZero, AttrSize) =>
              /\ pack_out.v.source = "attr" /\ pack_out.v.upp = AttrSize
              /\ pack_out.v.others = <<>>
              /\ pack_out.v.leftover = IF qty = 0 THEN 0 ELSE RTrunc(FloatMod(qty, AttrSize))
        /\ (~RLt(RZero, AttrSize) /\ PatternSize > 0) =>
              /\ pack_out.v.source = "pattern" /\ pack_out.v.upp = RInt(PatternSize)
              /\ pack_out.v.others = <<>>
              /\ pack_out.v.leftover = IF qty = 0 THEN 0 ELSE qty % PatternSize

\* an explicit 40 per pallet has won over a matching pattern and over the
\* divisibility of 72 by 36
C15_Witness ==
    /\ pack_out.st = "returned" /\ qty = 72
    /\ AttrSize = RInt(40) /\ PatternSize = 36
    /\ pack_out.v.source = "attr" /\ pack_out.v.leftover = 32

\* C16: for a nonzero quantity with no attribute and no pattern match: exactly
\* one candidate divides it -> that candidate, "divisible", leftover 0; several
\* divide it -> 36 if among them, else the largest, "ambiguous_divisible", every
\* other exact divisor rejected, leftover 0; none divides it -> the candidate of
\* smallest remainder, the larger one on a tie, "closest", leftover that remainder.
Candidates == {36, 37, 35, 31, 30}
Divisors(q) == {p \in Candidates : q % p = 0}
Largest(S) == CHOOSE p \in S : \A r \in S : r <= p
LeastRemainder(q) ==
    CHOOSE p \in Candidates :
        \A r \in Candidates : q % p < q % r \/ (q % p = q % r /\ p >= r)

C16_DivisibilityTiers ==
    (pack_out.st = "returned" /\ qty # 0 /\ NoAttrNoPattern) =>
        /\ Cardinality(Divisors(qty)) = 1 =>
              /\ pack_out.v.upp = RInt(Largest(Divisors(qty)))
              /\ pack_out.v.source = "divisible"
              /\ pack_out.v.others = <<>> /\ pack_out.v.leftover = 0
        /\ Cardinality(Divisors(qty)) > 1 =>
              /\ pack_out.v.upp = RInt(IF 36 \in Divisors(qty) THEN 36
                                       ELSE Largest(Divisors(qty)))
              /\ pack_out.v.source = "ambiguous_divisible"
              /\ {pack_out.v.others[i] : i \in DOMAIN pack_out.v.others}
                    = {p \in Divisors(qty) : RInt(p) # pack_out.v.upp}
              /\ Len(pack_out.v.others) = Cardinality(Divisors(qty)) - 1
              /\ pack_out.v.leftover = 0
        /\ Divisors(qty) = {} =>
              /\ pack_out.v.upp = RInt(LeastRemainder(qty))
              /\ pack_out.v.source = "closest"
              /\ pack_out.v.others = <<>>
              /\ pack_out.v.leftover = qty % LeastRemainder(qty)

\* 1332 = 36 x 37: 36 is preferred over the larger 37, which is rejected
C16_Witness ==
    /\ pack_out.st = "returned" /\ qty = 1332 /\ NoAttrNoPattern
    /\ pack_out.v.source = "ambiguous_divisible"
    /\ pack_out.v.upp = RInt(36) /\ pack_out.v.others = <<37>>


RowsOutcome(rs) ==
    IF \E i \in DOMAIN rs : rs[i].t = "raise" THEN Raised ELSE Returned(rs)

(***************************************************************************)
(* The rows of one sales order (the body of so_mapper.main's loop)         *)
(***************************************************************************)
MaxItems == 3

TxtTransporte == <<"T", "r", "a", "n", "s", "p", "o", "r", "t", "e">>
TxtEnvio == <<"E", "n", "v", "i", "o">>
TxtTransporteUrgente == <<"T", "r", "a", "n", "s", "p", "o", "r", "t", "e", " ", "u", "r", "g", "e", "n", "t", "e">>

ItemPanel == DictOf(<< <<"name", Str(TxtPanel605W)>>, <<"units", Num(72)>>, <<"price", Num(100)>> >>)
ItemCable == DictOf(<< <<"name", Str(TxtCable12)>>, <<"units", Num(70)>>, <<"price", Num(2)>>,
                       <<"productId", Str(<<"p", "1">>)>>, <<"sku", Str(TxtSkuA605)>> >>)
ItemTransport == DictOf(<< <<"name", Str(TxtTransporte)>>, <<"units", Num(1)>>, <<"price", Num(150)>> >>)
ItemTagged == DictOf(<< <<"name", Str(TxtEnvio)>>, <<"units", Num(2)>>, <<"price", Num(50)>>,
                        <<"tags", List(<<Str(TxtTransporte)>>)>> >>)
ItemUrgent == DictOf(<< <<"name", Str(TxtTransporteUrgente)>>, <<"units", Num(1)>>, <<"price", Num(80)>> >>)
ItemSet == {ItemPanel, ItemCable, ItemTransport, ItemTagged, ItemUrgent}

InitRows ==
    /\ \E items \in SeqsUpTo(ItemSet, MaxItems), cn \in {Absent, Str(<<"A", "c", "m", "e">>)} :
          order = DictOf(<< <<"contactName", cn>>,
                            <<"products", IF items = <<>> THEN Absent ELSE List(items)>> >>)
    /\ rows_out = Pending
    /\ RestSubtotal /\ RestStatus /\ RestFields /\ RestPower /\ RestPack /\ RestLedger

BuildDocumentRows ==
    /\ rows_out.st = "pending"
    /\ rows_out' = RowsOutcome(BuildRows(order.v))
    /\ UNCHANGED <<order, varsSubtotal, varsStatus, varsFields, varsPower, varsPack, varsLedger>>

NextRows == BuildDocumentRows
SpecRows == InitRows /\ [][NextRows]_vars

\* C5 (as claimed): the transport amount is attributed to the first row of a
\* document only: with two or more material rows and a transport line, the first
\* row carries the amount and every later row carries none.
C5_TransportOnFirstRowOnly ==
    ( /\ rows_out.st = "returned"
      /\ Len(rows_out.v) >= 2
      /\ extract_transport_amount_from_doc(order.v).t = "num" )
    => /\ rows_out.v[1].Transporte = extract_transport_amount_from_doc(order.v)
       /\ \A i \in 2..Len(rows_out.v) : rows_out.v[i].Transporte.t # "num"

\* C14 (as claimed): transport lines are partitioned from material lines: a line
\* of the document counts in the transport amount exactly when
\* iter_document_lines flags it is_transport, and the material rows are the
\* lines that do not count in the transport amount.
OrderLines == Or(Get(order.v, "products"), EmptyList).v
CountedInTransport(it) ==
    extract_transport_amount_from_doc([products |-> List(<<it>>)]).t = "num"
FlaggedTransport(it) == iter_document_lines(<<it>>)[1].is_transport

C14_TransportPartition ==
    rows_out.st = "returned" =>
        /\ \A i \in DOMAIN OrderLines :
               CountedInTransport(OrderLines[i]) <=> FlaggedTransport(OrderLines[i])
        /\ Len(rows_out.v)
               = Cardinality({i \in DOMAIN OrderLines : ~CountedInTransport(OrderLines[i])})


(***************************************************************************)
(* Runs of mail.main over the persisted ledger                             *)
(***************************************************************************)
MaxBatch == 2

InvNumber    == DictOf(<< <<"number", Str(<<"F", "1">>)>> >>)
InvDocNumber == DictOf(<< <<"docNumber", Str(<<"F", "2">>)>>, <<"id", Str(<<"x", "9">>)>> >>)
InvCode      == DictOf(<< <<"number", EmptyStr>>, <<"code", Str(<<"F", "1">>)>> >>)
InvUnnamed   == DictOf(<< <<"total", Num(10)>> >>)
InvoiceSet == {InvNumber, InvDocNumber, InvCode, InvUnnamed}

InitLedger ==
    /\ state_file = FileAbsent
    /\ pc = "idle"
    /\ processed_invoices = {}
    /\ invoices_all = <<>>
    /\ new_invoices = <<>>
    /\ reported = {}
    /\ settled = {}
    /\ RestSubtotal /\ RestStatus /\ RestFields /\ RestPower /\ RestPack /\ RestRows

\* invoices_all = fetch_last_days(...)
FetchInvoices ==
    /\ pc = "idle"
    /\ \E batch \in SeqsUpTo(InvoiceSet, MaxBatch) : invoices_all' = batch
    /\ pc' = "fetched"
    /\ UNCHANGED <<state_file, processed_invoices, new_invoices, reported, settled>>
    /\ UNCHANGED <<varsSubtotal, varsStatus, varsFields, varsPower, varsPack, varsRows>>

\* processed_invoices = load_processed_invoices(); new_invoices = [...]
ComputeNewInvoices ==
    /\ pc = "fetched"
    /\ processed_invoices' = load_processed_invoices(state_file)
    /\ new_invoices' = new_invoices_of(invoices_all, load_processed_invoices(state_file))
    /\ pc' = "diffed"
    /\ UNCHANGED <<state_file, invoices_all, reported, settled>>
    /\ UNCHANGED <<varsSubtotal, varsStatus, varsFields, varsPower, varsPack, varsRows>>

\* send_email(subject, html): the report lists new_invoices
SendEmail ==
    /\ pc = "diffed"
    /\ reported' = reported \cup BatchIds(new_invoices)
    /\ pc' = "sent"
    /\ UNCHANGED <<state_file, processed_invoices, invoices_all, new_invoices, settled>>
    /\ UNCHANGED <<varsSubtotal, varsStatus, varsFields, varsPower, varsPack, varsRows>>

\* a slip: the ledger is saved before the report is sent
SaveBeforeSend ==
    /\ pc \in {"diffed", "sent"}
    /\ state_file' = save_processed_invoices(all_ids(processed_invoices, invoices_all))
    /\ settled' = settled \cup BatchIds(new_invoices)
    /\ pc' = "idle"
    /\ processed_invoices' = {}
    /\ invoices_all' = <<>>
    /\ new_invoices' = <<>>
    /\ UNCHANGED reported
    /\ UNCHANGED <<varsSubtotal, varsStatus, varsFields, varsPower, varsPack, varsRows>>

\* save_processed_invoices(all_ids); the run ends
SaveProcessedInvoices ==
    /\ pc = "sent"
    /\ state_file' = save_processed_invoices(all_ids(processed_invoices, invoices_all))
    /\ settled' = settled \cup BatchIds(new_invoices)
    /\ pc' = "idle"
    /\ processed_invoices' = {}
    /\ invoices_all' = <<>>
    /\ new_invoices' = <<>>
    /\ UNCHANGED reported
    /\ UNCHANGED <<varsSubtotal, varsStatus, varsFields, varsPower, varsPack, varsRows>>

\* an exception (a later fetch, the SMTP session, the write of the file) ends the run
AbortRun ==
    /\ pc \in {"fetched", "diffed", "sent"}
    /\ pc' = "idle"
    /\ processed_invoices' = {}
    /\ invoices_all' = <<>>
    /\ new_invoices' = <<>>
    /\ UNCHANGED <<state_file, reported, settled>>
    /\ UNCHANGED <<varsSubtotal, varsStatus, varsFields, varsPower, varsPack, varsRows>>

\* the state file is deleted, or its text is damaged, outside the program
LedgerLost ==
    /\ state_file.t = "json"
    /\ state_file' \in {FileAbsent, FileCorrupt}
    /\ settled' = {}
    /\ UNCHANGED <<pc, processed_invoices, invoices_all, new_invoices, reported>>
    /\ UNCHANGED <<varsSubtotal, varsStatus, varsFields, varsPower, varsPack, varsRows>>

NextLedger ==
    \/ FetchInvoices
    \/ ComputeNewInvoices
    \/ SendEmail
    \/ SaveProcessedInvoices
    \/ AbortRun
    \/ LedgerLost
SpecLedger == InitLedger /\ [][NextLedger]_vars

\* C7: merging a batch into the ledger is idempotent and monotone: merging the
\* same batch twice gives what merging it once gives, the merged set contains
\* the ledger it started from, and no invoice of the batch is new against the
\* merged ledger.
C7_MergeIdempotentMonotone ==
    pc \in {"diffed", "sent"} =>
        /\ all_ids(all_ids(processed_invoices, invoices_all), invoices_all)
              = all_ids(processed_invoices, invoices_all)
        /\ processed_invoices \subseteq all_ids(processed_invoices, invoices_all)
        /\ new_invoices_of(invoices_all, all_ids(processed_invoices, invoices_all)) = <<>>

\* a run with a non-empty ledger whose batch holds both known and new invoices
C7_Witness ==
    /\ pc = "sent"
    /\ processed_invoices # {}
    /\ new_invoices # <<>>
    /\ Len(new_invoices) < Len(invoices_all)
    /\ ~(processed_invoices \subseteq BatchIds(invoices_all))

C19_WrittenOnlyAfterSend ==
    [][ /\ (state_file' # state_file /\ state_file'.t = "json") =>
              /\ pc = "sent"
              /\ state_file'.v = processed_invoices \cup BatchIds(invoices_all)
              /\ state_file'.v \ processed_invoices \subseteq BatchIds(new_invoices)
              /\ BatchIds(new_invoices) \subseteq reported
        /\ (pc \in {"fetched", "diffed"} /\ pc' = "idle") => state_file' = state_file
      ]_vars

\* two completed runs have put three identifiers in the ledger, each one listed
\* in a report that was sent
C19_Witness ==
    /\ pc = "idle"
    /\ state_file.t = "json"
    /\ Cardinality(state_file.v) = 3
    /\ state_file.v \subseteq reported
    /\ settled = state_file.v


====
